---- MODULE Spec2Model ----
(***************************************************************************)
(* A model of nba_trade_evaluator: the TradeEvaluator of                   *)
(* src/src/evaluate_trade.py, the configuration of src/src/config.py and   *)
(* the DataCollector of src/src/fetch_data.py.                             *)
(*                                                                         *)
(* Numbers.  The program computes with floats; the model computes with     *)
(* exact rationals [n |-> numerator, d |-> denominator > 0] kept in lowest *)
(* terms, so that every comparison and division is the mathematical one    *)
(* and rounding to a number of decimals is an explicit step (RoundTo).     *)
(***************************************************************************)
EXTENDS Integers, Sequences, FiniteSets, TLC

VARIABLES
    raw_file,       \* content of data/raw/player_stats_raw.csv, or NoFile
    weights,        \* the module global IMPACT_WEIGHTS as the process sees it
    evaluator,      \* "none" | "failed" | "ready": the TradeEvaluator object
    player_stats,   \* TradeEvaluator.player_stats (the loaded table), or NoTable
    call,           \* the last call made: its operation, arguments and outcome
    provider,       \* the stats provider: the active players and each one's game logs
    cache           \* data/cache/player_<id>_<season>.csv per player, or NoFile

vars == <<raw_file, weights, evaluator, player_stats, call, provider, cache>>

-----------------------------------------------------------------------------
(* Exact rational arithmetic standing for the program's float arithmetic.   *)

Abs(x) == IF x < 0 THEN -x ELSE x

RECURSIVE GCD(_, _)
GCD(a, b) == IF b = 0 THEN a ELSE GCD(b, a % b)

\* The rational n/d (d # 0) in lowest terms with a positive denominator.
Rat(n, d) ==
    LET g == GCD(Abs(n), Abs(d))
        s == IF d < 0 THEN -1 ELSE 1
    IN  [n |-> (s * n) \div g, d |-> (s * d) \div g]

FromInt(i) == [n |-> i, d |-> 1]
Zero == FromInt(0)

RAdd(a, b) == Rat(a.n * b.d + b.n * a.d, a.d * b.d)
RSub(a, b) == Rat(a.n * b.d - b.n * a.d, a.d * b.d)
RMul(a, b) == Rat(a.n * b.n, a.d * b.d)
\* a / b; the callers divide by a non-zero b only.
RDiv(a, b) == Rat(a.n * b.d, a.d * b.n)
RNeg(a)    == [n |-> -a.n, d |-> a.d]
RAbs(a)    == [n |-> Abs(a.n), d |-> a.d]
RLt(a, b)  == a.n * b.d < b.n * a.d
RLe(a, b)  == a.n * b.d <= b.n * a.d
\* Python's max(a, b): b only when b > a.
RMax(a, b) == IF RLt(a, b) THEN b ELSE a

RECURSIVE Pow10(_)
Pow10(k) == IF k = 0 THEN 1 ELSE 10 * Pow10(k - 1)

\* round(x, digits): the nearest multiple of 10^-digits, ties to the even one.
RoundTo(x, digits) ==
    LET scale == Pow10(digits)
        num   == x.n * scale
        q     == num \div x.d
        r     == num % x.d
        up    == \/ 2 * r > x.d
                 \/ 2 * r = x.d /\ q % 2 = 1
    IN  Rat(IF up THEN q + 1 ELSE q, scale)

-----------------------------------------------------------------------------
(* Configuration: src/src/config.py.                                        *)

WeightedStats == {"PTS", "REB", "AST", "STL", "BLK", "TOV"}

IMPACT_WEIGHTS ==
    [PTS |-> Rat(10, 10), REB |-> Rat(12, 10), AST |-> Rat(15, 10),
     STL |-> Rat(20, 10), BLK |-> Rat(20, 10), TOV |-> Rat(-10, 10)]

TRADE_THRESHOLDS ==
    [fair |-> Rat(30, 10), slightly_unbalanced |-> Rat(70, 10)]

PROCESSING_CONFIG == [min_games_played |-> 10]

-----------------------------------------------------------------------------
(* Tables.  A table (a pandas DataFrame, a CSV file's content) is           *)
(* [columns |-> set of column names, rows |-> sequence of rows], a row a    *)
(* function from the table's columns to values.  GP, PLAYER_ID and TEAM_ID  *)
(* are integers, PLAYER_NAME a string, every other value a rational.        *)

None    == [none |-> TRUE]
NoFile  == [exists |-> FALSE]
NoTable == [loaded |-> FALSE]

\* DataCollector.essential_stats: the columns the collector writes.
essential_stats ==
    {"PTS", "AST", "REB", "STL", "BLK", "TOV", "FG_PCT", "FG3_PCT", "FT_PCT",
     "GP", "PLAYER_ID", "PLAYER_NAME", "TEAM_ID"}

SetMin(S) == CHOOSE x \in S : \A y \in S : x <= y

RECURSIVE RSum(_, _)
\* The sum of f[x] over x in S.
RSum(f, S) ==
    IF S = {} THEN Zero
    ELSE LET x == CHOOSE y \in S : TRUE
         IN  RAdd(f[x], RSum(f, S \ {x}))

-----------------------------------------------------------------------------
(* TradeEvaluator: src/src/evaluate_trade.py.                               *)

MissingColumns_weights_only(table) == DOMAIN IMPACT_WEIGHTS \ table.columns

\* _validate_data: the required columns the table lacks.
MissingColumns(table) ==
    (DOMAIN IMPACT_WEIGHTS \cup {"PLAYER_ID", "PLAYER_NAME", "GP"}) \ table.columns

\* __init__: the outcome of reading `file` and validating it.
LoadOutcome(file) ==
    IF file = NoFile
    THEN [ok |-> FALSE, error |-> "FileNotFoundError", missing |-> {}]
    ELSE IF MissingColumns(file) # {}
    THEN [ok |-> FALSE, error |-> "ValueError", missing |-> MissingColumns(file)]
    ELSE [ok |-> TRUE, table |-> file]

get_player_stats_first_row(table, player_id) ==
    IF "PLAYER_ID" \notin table.columns \/ Len(table.rows) = 0 THEN None
    ELSE LET hits == {i \in 1..Len(table.rows) :
                          table.rows[i]["PLAYER_ID"] = player_id}
         IN  table.rows[IF hits = {} THEN 1 ELSE SetMin(hits)]

\* get_player_stats: the first row whose PLAYER_ID is player_id, or None.
get_player_stats(table, player_id) ==
    IF "PLAYER_ID" \notin table.columns THEN None
    ELSE LET hits == {i \in 1..Len(table.rows) :
                          table.rows[i]["PLAYER_ID"] = player_id}
         IN  IF hits = {} THEN None ELSE table.rows[SetMin(hits)]

Returned(v) == [raised |-> FALSE, value |-> v]
Raised(e)   == [raised |-> TRUE, exc |-> e]

calculate_impact_score_undivided(stats, w) ==
    IF stats["GP"] < PROCESSING_CONFIG.min_games_played THEN Returned(Zero)
    ELSE LET present == DOMAIN w \cap DOMAIN stats
         IN  Returned(RSum([stat \in present |-> RMul(stats[stat], w[stat])],
                           present))

calculate_impact_score_clamped(stats, w) ==
    IF stats["GP"] < PROCESSING_CONFIG.min_games_played THEN Returned(Zero)
    ELSE LET present == DOMAIN w \cap DOMAIN stats
             impact  == RSum([stat \in present |-> RMul(stats[stat], w[stat])],
                             present)
         IN  Returned(RMax(Zero, RDiv(impact, FromInt(stats["GP"]))))

\* calculate_impact_score under the weight table w.  stats["GP"] and, on the
\* insufficient-games path, stats["PLAYER_NAME"] (the log line) are subscripts
\* that raise KeyError on a row without them.
calculate_impact_score(stats, w) ==
    IF "GP" \notin DOMAIN stats THEN Raised("KeyError")
    ELSE IF stats["GP"] < PROCESSING_CONFIG.min_games_played
    THEN IF "PLAYER_NAME" \notin DOMAIN stats THEN Raised("KeyError")
         ELSE Returned(Zero)
    ELSE LET present == DOMAIN w \cap DOMAIN stats
             impact  == RSum([stat \in present |-> RMul(stats[stat], w[stat])],
                             present)
         IN  Returned(RDiv(impact, FromInt(stats["GP"])))

_get_verdict_inclusive(difference) ==
    IF RLe(difference, TRADE_THRESHOLDS.fair) THEN "Fair Trade"
    ELSE IF RLe(difference, TRADE_THRESHOLDS.slightly_unbalanced)
    THEN "Slightly Unbalanced"
    ELSE "Significantly Unbalanced"

\* _get_verdict
_get_verdict(difference) ==
    IF RLt(difference, TRADE_THRESHOLDS.fair) THEN "Fair Trade"
    ELSE IF RLt(difference, TRADE_THRESHOLDS.slightly_unbalanced)
    THEN "Slightly Unbalanced"
    ELSE "Significantly Unbalanced"

_estimate_win_impact_swapped(impact1, impact2) ==
    RoundTo(RDiv(RSub(impact2, impact1), FromInt(10)), 2)

\* _estimate_win_impact
_estimate_win_impact(impact1, impact2) ==
    RoundTo(RDiv(RSub(impact1, impact2), FromInt(10)), 2)

\* evaluate_trade, line 106: impact_diff = abs(p1_impact - p2_impact)
impact_diff_no_abs(p1_impact, p2_impact) == RSub(p1_impact, p2_impact)
impact_diff_of_rounded(p1_impact, p2_impact) ==
    RAbs(RSub(RoundTo(p1_impact, 2), RoundTo(p2_impact, 2)))
impact_diff(p1_impact, p2_impact) == RAbs(RSub(p1_impact, p2_impact))

\* evaluate_trade, line 107: fairness_score = max(0, 10 - impact_diff)
fairness_score_no_floor(difference) == RSub(FromInt(10), difference)
fairness_score(difference) == RMax(Zero, RSub(FromInt(10), difference))

\* _get_stats_summary
_get_stats_summary(stats) ==
    [PPG |-> RoundTo(stats["PTS"], 1), RPG |-> RoundTo(stats["REB"], 1),
     APG |-> RoundTo(stats["AST"], 1), GP |-> stats["GP"]]

\* str(player_id) for the identifiers of the model.
IdStr(id) == <<"1", "2", "3", "4", "5", "6">>[id]

\* The dict literal of lines 111-122: a later key replaces an equal earlier one.
PlayersDict(k1, v1, k2, v2) == (k2 :> v2) @@ (k1 :> v1)

\* evaluate_trade
evaluate_trade(table, w, player1_id, player2_id) ==
    LET p1_stats == get_player_stats(table, player1_id)
        p2_stats == get_player_stats(table, player2_id)
    IN  IF p1_stats = None \/ p2_stats = None
        THEN Returned([error |-> "One or both players not found"])
        ELSE
        LET r1 == calculate_impact_score(p1_stats, w)
            r2 == calculate_impact_score(p2_stats, w)
        IN  IF r1.raised THEN r1
            ELSE IF r2.raised THEN r2
            ELSE
            LET p1_impact      == r1.value
                p2_impact      == r2.value
                difference     == impact_diff(p1_impact, p2_impact)
            IN  Returned([trade_analysis |-> [
                    players |-> PlayersDict(
                        IdStr(player1_id),
                        [name |-> p1_stats["PLAYER_NAME"],
                         impact_score |-> RoundTo(p1_impact, 2),
                         stats_summary |-> _get_stats_summary(p1_stats)],
                        IdStr(player2_id),
                        [name |-> p2_stats["PLAYER_NAME"],
                         impact_score |-> RoundTo(p2_impact, 2),
                         stats_summary |-> _get_stats_summary(p2_stats)]),
                    evaluation |-> [
                        fairness_score |-> RoundTo(fairness_score(difference), 2),
                        verdict |-> _get_verdict(difference),
                        win_impact |-> _estimate_win_impact(p1_impact, p2_impact)]]])

-----------------------------------------------------------------------------
(* DataCollector: src/src/fetch_data.py.                                    *)
(*                                                                          *)
(* Game logs are tables of one row per game.  Counting columns (PTS, ...,   *)
(* FGM, FGA, ...) and TEAM_ID hold integers; percentage columns hold a      *)
(* rational, NaN (0/0) or Inf (x/0, x > 0), as pandas divides.  Writing a   *)
(* table with to_csv and reading it back with read_csv gives the same       *)
(* columns and values, so a file is modelled by the table it holds.         *)

\* PlayerGameLog(...) raising (no such player, network failure).
ApiError == [error |-> TRUE]

NaN == [nan |-> TRUE]
Inf == [inf |-> TRUE]

CountingStats == {"PTS", "AST", "REB", "STL", "BLK", "TOV"}
Percentages   == {"FG_PCT", "FG3_PCT", "FT_PCT"}

\* pct.split('_')[0] + "M" / "A"
MadeColumn(pct) ==
    CASE pct = "FG_PCT" -> "FGM" [] pct = "FG3_PCT" -> "FG3M" [] pct = "FT_PCT" -> "FTM"
AttemptsColumn(pct) ==
    CASE pct = "FG_PCT" -> "FGA" [] pct = "FG3_PCT" -> "FG3A" [] pct = "FT_PCT" -> "FTA"

\* made / attempts of one game row, as pandas divides two integer columns.
RowRatio(made, attempts) ==
    IF attempts # 0 THEN Rat(made, attempts)
    ELSE IF made = 0 THEN NaN ELSE Inf

RECURSIVE IntSum(_, _, _)
\* logs[column].sum() over the first k rows.
IntSum(rows, column, k) ==
    IF k = 0 THEN 0 ELSE rows[k][column] + IntSum(rows, column, k - 1)

\* logs[column].mean() of an integer column of a non-empty table.
IntMean(logs, column) ==
    Rat(IntSum(logs.rows, column, Len(logs.rows)), Len(logs.rows))

\* logs[column].mean() of a percentage column: NaN entries are skipped.
PctMean(logs, column) ==
    LET idx  == {i \in 1..Len(logs.rows) : logs.rows[i][column] # NaN}
        vals == [i \in idx |-> logs.rows[i][column]]
    IN  IF idx = {} THEN NaN
        ELSE IF \E i \in idx : vals[i] = Inf THEN Inf
        ELSE RDiv(RSum(vals, idx), FromInt(Cardinality(idx)))

\* Lines 73-78: the percentage columns the response lacks, derived per game.
\* The subscript of an absent made or attempts column raises KeyError.
DerivablePercentages(logs) ==
    \A pct \in Percentages \ logs.columns :
        {MadeColumn(pct), AttemptsColumn(pct)} \subseteq logs.columns

WithPercentages(logs) ==
    LET added == Percentages \ logs.columns
    IN  [columns |-> logs.columns \cup added,
         rows |-> [i \in 1..Len(logs.rows) |->
                     [c \in logs.columns \cup added |->
                        IF c \in added
                        THEN RowRatio(logs.rows[i][MadeColumn(c)],
                                      logs.rows[i][AttemptsColumn(c)])
                        ELSE logs.rows[i][c]]]]

fetch_player_logs_without_saving(player_id, files, prov) ==
    IF files[player_id] # NoFile
    THEN [logs |-> files[player_id], cache |-> files, contacted |-> FALSE]
    ELSE LET response == prov.logs[player_id]
         IN  IF response = ApiError \/ ~DerivablePercentages(response)
                \/ Len(response.rows) = 0
             THEN [logs |-> None, cache |-> files, contacted |-> TRUE]
             ELSE [logs |-> WithPercentages(response), cache |-> files,
                   contacted |-> TRUE]

\* fetch_player_logs: the logs returned (or None), the cache afterwards and
\* whether the provider was contacted.
fetch_player_logs(player_id, files, prov) ==
    IF files[player_id] # NoFile
    THEN [logs |-> files[player_id], cache |-> files, contacted |-> FALSE]
    ELSE LET response == prov.logs[player_id]
         IN  IF response = ApiError \/ ~DerivablePercentages(response)
             THEN [logs |-> None, cache |-> files, contacted |-> TRUE]
             ELSE LET logs == WithPercentages(response)
                  IN  IF Len(logs.rows) # 0
                      THEN [logs |-> logs,
                            cache |-> [files EXCEPT ![player_id] = logs],
                            contacted |-> TRUE]
                      ELSE [logs |-> None, cache |-> files, contacted |-> TRUE]

\* Line 104: the player is skipped for too few games.
insufficient_games_never(num_games) == FALSE
insufficient_games(num_games) == num_games < PROCESSING_CONFIG.min_games_played

\* Lines 116-127: the season value of one percentage, when it can be had.
HasPercentage(logs, pct) ==
    \/ pct \in logs.columns
    \/ {MadeColumn(pct), AttemptsColumn(pct)} \subseteq logs.columns

SeasonPercentage(logs, pct) ==
    IF pct \in logs.columns THEN PctMean(logs, pct)
    ELSE LET made     == IntSum(logs.rows, MadeColumn(pct), Len(logs.rows))
             attempts == IntSum(logs.rows, AttemptsColumn(pct), Len(logs.rows))
         IN  IF attempts > 0 THEN Rat(made, attempts) ELSE Zero

\* Lines 108-139: the stats dict of a player from its logs.
PlayerStatsDict(player, logs) ==
    LET keys == (CountingStats \cap logs.columns)
                \cup {pct \in Percentages : HasPercentage(logs, pct)}
                \cup {"GP", "PLAYER_ID", "PLAYER_NAME", "TEAM_ID"}
    IN  [key \in keys |->
            CASE key = "GP"          -> Len(logs.rows)
              [] key = "PLAYER_ID"   -> player.id
              [] key = "PLAYER_NAME" -> player.full_name
              [] key = "TEAM_ID"     ->
                    IF "TEAM_ID" \in logs.columns
                    THEN logs.rows[Len(logs.rows)]["TEAM_ID"]
                    ELSE IF "teamId" \in DOMAIN player THEN player.teamId ELSE 0
              [] key \in Percentages -> SeasonPercentage(logs, key)
              [] OTHER               -> IntMean(logs, key)]

RECURSIVE CollectLoop(_, _, _, _, _)
\* Lines 96-145: the loop over the active players from index i on.  `data` are
\* the rows appended so far, `events` the provider requests and sleeps made.
CollectLoop(i, files, data, events, prov) ==
    IF i > Len(prov.active)
    THEN [data |-> data, cache |-> files, events |-> events]
    ELSE
    LET player  == prov.active[i]
        fetched == fetch_player_logs(player.id, files, prov)
        logs    == fetched.logs
        asked   == IF fetched.contacted
                   THEN Append(events, [io |-> "request", id |-> player.id])
                   ELSE events
        slept   == Append(asked, [io |-> "sleep"])
    IN  IF logs = None \/ Len(logs.rows) = 0
        THEN CollectLoop(i + 1, fetched.cache, data, slept, prov)
        ELSE IF insufficient_games(Len(logs.rows))
        THEN CollectLoop(i + 1, fetched.cache, data, asked, prov)
        ELSE LET stats == PlayerStatsDict(player, logs)
             IN  CollectLoop(i + 1, fetched.cache,
                             IF essential_stats \subseteq DOMAIN stats
                             THEN Append(data, stats) ELSE data,
                             slept, prov)

\* collect_player_stats: the table returned, the stored table and the cache
\* afterwards.  A non-empty table is stored before it is returned.
collect_player_stats(files, stored, prov) ==
    LET done == CollectLoop(1, files, <<>>, <<>>, prov)
    IN  [df |-> [columns |-> essential_stats, rows |-> done.data],
         raw_file |-> IF done.data # <<>>
                      THEN [columns |-> essential_stats, rows |-> done.data]
                      ELSE stored,
         cache |-> done.cache,
         events |-> done.events]

\* The player names of the model that start with 'test_player_'.
TestPlayerNames == {"test_player_1", "test_player_2"}

\* name.startswith('test_player_')
StartsWithTestPlayer(name) == name \in TestPlayerNames

\* df.empty: no row, or no column.
IsEmpty(df) == Len(df.rows) = 0 \/ df.columns = {}

validate_data_ignoring_columns(df) ==
    IF IsEmpty(df) THEN FALSE
    ELSE IF "PLAYER_NAME" \in df.columns
            /\ \E i \in 1..Len(df.rows) :
                  StartsWithTestPlayer(df.rows[i]["PLAYER_NAME"])
    THEN TRUE
    ELSE IF Len(df.rows) < 50 THEN FALSE
    ELSE TRUE

\* validate_data
validate_data(df) ==
    IF IsEmpty(df) THEN FALSE
    ELSE IF essential_stats \ df.columns # {} THEN FALSE
    ELSE IF \E i \in 1..Len(df.rows) :
               StartsWithTestPlayer(df.rows[i]["PLAYER_NAME"])
    THEN TRUE
    ELSE IF Len(df.rows) < 50 THEN FALSE
    ELSE TRUE

collector_get_player_stats_reusing_stored(force_refresh, files, stored, prov) ==
    IF stored # NoFile /\ validate_data(stored)
    THEN [result |-> stored, raw_file |-> stored, cache |-> files,
          collected |-> FALSE, events |-> <<>>]
    ELSE LET fresh == collect_player_stats(files, stored, prov)
         IN  [result |-> IF validate_data(fresh.df) THEN fresh.df ELSE None,
              raw_file |-> fresh.raw_file, cache |-> fresh.cache,
              collected |-> TRUE, events |-> fresh.events]

\* DataCollector.get_player_stats: what it returns (a table or None), the
\* stored table and the cache afterwards, whether collect_player_stats ran and
\* the provider requests and sleeps it made.
collector_get_player_stats(force_refresh, files, stored, prov) ==
    IF ~force_refresh /\ stored # NoFile /\ validate_data(stored)
    THEN [result |-> stored, raw_file |-> stored, cache |-> files,
          collected |-> FALSE, events |-> <<>>]
    ELSE LET fresh == collect_player_stats(files, stored, prov)
         IN  [result |-> IF validate_data(fresh.df) THEN fresh.df ELSE None,
              raw_file |-> fresh.raw_file, cache |-> fresh.cache,
              collected |-> TRUE, events |-> fresh.events]

-----------------------------------------------------------------------------
(* Inputs: the stat rows, stored tables and call arguments the operations   *)
(* are run on.                                                              *)

MaxRows    == 2   \* rows of a stored table
MaxMissing == 1   \* columns a stored table may lack
MaxImp     == 12  \* impacts of a direct call: k/8 for k in -MaxImp..MaxImp
MaxDiff    == 48  \* differences of a direct call: k/4 for k in 0..MaxDiff
MaxScale   == 4   \* factors scaling the weight table: k/2 for k in -MaxScale..MaxScale
MaxPlayers == 2   \* active players the provider lists
MaxGames   == 11  \* games of the longest game log

\* The player identifiers of the stored rows, and one no stored table holds.
PlayerIds == {1, 2}
AbsentIds == {3}

Q(n) == Rat(n, 100)

\* Season rows: games played and the six weighted stats.  With the shipped
\* weights their impacts are 0 (too few games), 3.55, 6.55, 3.55, 13.55, -4,
\* 7 and 71/60.
StatProfiles ==
    { [GP |-> 5,  PTS |-> Q(3000),  REB |-> Q(1000), AST |-> Q(1000),
       STL |-> Q(200), BLK |-> Q(200), TOV |-> Q(300)],
      [GP |-> 10, PTS |-> Q(2000),  REB |-> Q(500),  AST |-> Q(500),
       STL |-> Q(100), BLK |-> Q(100), TOV |-> Q(200)],
      [GP |-> 10, PTS |-> Q(5000),  REB |-> Q(500),  AST |-> Q(500),
       STL |-> Q(100), BLK |-> Q(100), TOV |-> Q(200)],
      [GP |-> 20, PTS |-> Q(4000),  REB |-> Q(1000), AST |-> Q(1000),
       STL |-> Q(200), BLK |-> Q(200), TOV |-> Q(400)],
      [GP |-> 10, PTS |-> Q(12000), REB |-> Q(500),  AST |-> Q(500),
       STL |-> Q(100), BLK |-> Q(100), TOV |-> Q(200)],
      [GP |-> 10, PTS |-> Q(0),     REB |-> Q(0),    AST |-> Q(0),
       STL |-> Q(0),   BLK |-> Q(0),   TOV |-> Q(4000)],
      [GP |-> 10, PTS |-> Q(7000),  REB |-> Q(0),    AST |-> Q(0),
       STL |-> Q(0),   BLK |-> Q(0),   TOV |-> Q(0)],
      [GP |-> 30, PTS |-> Q(2000),  REB |-> Q(500),  AST |-> Q(500),
       STL |-> Q(100), BLK |-> Q(100), TOV |-> Q(200)] }

PlayerName(id) == <<"Player A", "Player B", "Player C", "Player D">>[id]

\* The row of player `id` with the stats of profile p, on every column.
MkRow(id, p) ==
    [c \in essential_stats |->
        CASE c = "PLAYER_ID"   -> id
          [] c = "PLAYER_NAME" -> PlayerName(id)
          [] c = "TEAM_ID"     -> 1610612747
          [] c = "GP"          -> p.GP
          [] c = "FG_PCT"      -> Q(50)
          [] c = "FG3_PCT"     -> Q(37)
          [] c = "FT_PCT"      -> Q(83)
          [] OTHER             -> p[c]]

Restrict(row, cols) == [c \in cols |-> row[c]]

\* The table on the columns `cols` only.
Project(table, cols) ==
    [columns |-> cols,
     rows |-> [i \in 1..Len(table.rows) |-> Restrict(table.rows[i], cols)]]

SeqsUpTo(S, n) == UNION {[1..k -> S] : k \in 0..n}

RowPool == {MkRow(id, p) : id \in PlayerIds, p \in StatProfiles}

FullTables ==
    {[columns |-> essential_stats, rows |-> rs] : rs \in SeqsUpTo(RowPool, MaxRows)}

SampleTable ==
    [columns |-> essential_stats,
     rows |-> <<MkRow(1, CHOOSE p \in StatProfiles : p.GP = 10 /\ p.PTS = Q(2000)),
                MkRow(2, CHOOSE p \in StatProfiles : p.GP = 10 /\ p.PTS = Q(5000))>>]

DeficientTables ==
    {Project(SampleTable, essential_stats \ m) :
        m \in {x \in SUBSET essential_stats :
                   Cardinality(x) >= 1 /\ Cardinality(x) <= MaxMissing}}

\* Two players of impacts 2.996 and 0.004 under the shipped weights: 2.992
\* apart, while their impacts rounded to two decimals (3.0 and 0.0) are 3.0
\* apart.
NearBandTable ==
    LET p(pts) == [GP |-> 10, PTS |-> Q(pts), REB |-> Zero, AST |-> Zero,
                   STL |-> Zero, BLK |-> Zero, TOV |-> Zero]
    IN  [columns |-> essential_stats,
         rows |-> <<MkRow(1, p(2996)), MkRow(2, p(4))>>]

\* What data/raw/player_stats_raw.csv may hold when an evaluator is built.
Datasets == FullTables \cup DeficientTables \cup {NearBandTable} \cup {NoFile}

\* A provider with no active player, and a cache directory with no file.
NoProvider == [active |-> <<>>, logs |-> [id \in PlayerIds |-> ApiError]]
EmptyCache == [id \in PlayerIds |-> NoFile]

\* Identifiers asked of evaluate_trade.
AskedIds == PlayerIds \cup AbsentIds

-----------------------------------------------------------------------------
(* The evaluator as a state machine: construction, then evaluations.        *)

NoCall == [op |-> "none"]

Init ==
    /\ raw_file \in Datasets
    /\ weights = IMPACT_WEIGHTS
    /\ evaluator = "none"
    /\ player_stats = NoTable
    /\ call = NoCall
    /\ provider = NoProvider
    /\ cache = EmptyCache

\* TradeEvaluator(): read the stored table and validate it; on an exception no
\* object exists.
Construct ==
    /\ evaluator = "none"
    /\ LET o == LoadOutcome(raw_file)
       IN  /\ evaluator' = IF o.ok THEN "ready" ELSE "failed"
           /\ player_stats' = IF o.ok THEN o.table ELSE NoTable
           /\ call' = [op |-> "__init__", ok |-> o.ok,
                       error |-> IF o.ok THEN "" ELSE o.error,
                       missing |-> IF o.ok THEN {} ELSE o.missing]
    /\ UNCHANGED <<raw_file, weights, provider, cache>>

\* evaluator.evaluate_trade(player1_id, player2_id)
EvaluateTrade ==
    /\ evaluator = "ready"
    /\ \E player1_id \in AskedIds, player2_id \in AskedIds :
          call' = [op |-> "evaluate_trade",
                   player1_id |-> player1_id, player2_id |-> player2_id,
                   result |-> evaluate_trade(player_stats, weights,
                                             player1_id, player2_id)]
    /\ UNCHANGED <<raw_file, weights, evaluator, player_stats, provider, cache>>

Next == Construct \/ EvaluateTrade

Spec == Init /\ [][Next]_vars

-----------------------------------------------------------------------------
(* Configuration validation: src/src/config.py.                             *)
(*                                                                          *)
(* A configuration is the three module globals validate_config reads:       *)
(* DIRECTORIES (here: whether each directory exists), IMPACT_WEIGHTS and    *)
(* TRADE_THRESHOLDS.  A weight is a Python value [type, value]; a threshold *)
(* is a number.                                                             *)

DirectoryNames == {"raw", "processed", "cache"}

\* isinstance(v, (int, float)); bool is a subclass of int.
IsIntOrFloat(v) == v.type \in {"int", "float", "bool"}

validate_config_allows_equal(config) ==
    IF \E directory \in DirectoryNames : ~config.DIRECTORIES[directory] THEN FALSE
    ELSE IF ~(\A stat \in DOMAIN config.IMPACT_WEIGHTS :
                 IsIntOrFloat(config.IMPACT_WEIGHTS[stat])) THEN FALSE
    ELSE IF ~({"fair", "slightly_unbalanced"} \subseteq DOMAIN config.TRADE_THRESHOLDS)
    THEN FALSE
    ELSE IF RLt(config.TRADE_THRESHOLDS["slightly_unbalanced"],
                config.TRADE_THRESHOLDS["fair"])
    THEN FALSE
    ELSE TRUE

\* validate_config().  A threshold key that is absent raises KeyError inside
\* the try block, which the except clause turns into False.
validate_config(config) ==
    IF \E directory \in DirectoryNames : ~config.DIRECTORIES[directory] THEN FALSE
    ELSE IF ~(\A stat \in DOMAIN config.IMPACT_WEIGHTS :
                 IsIntOrFloat(config.IMPACT_WEIGHTS[stat])) THEN FALSE
    ELSE IF ~({"fair", "slightly_unbalanced"} \subseteq DOMAIN config.TRADE_THRESHOLDS)
    THEN FALSE
    ELSE IF RLe(config.TRADE_THRESHOLDS["slightly_unbalanced"],
                config.TRADE_THRESHOLDS["fair"])
    THEN FALSE
    ELSE TRUE

\* Importing src.config: every directory is created, then the configuration
\* is validated and ValueError raised when it is not valid.
import_config(config) ==
    LET made == [config EXCEPT !.DIRECTORIES = [d \in DirectoryNames |-> TRUE]]
    IN  IF validate_config(made) THEN Returned(made) ELSE Raised("ValueError")

\* The configuration as shipped, with every directory in place.
ShippedConfig ==
    [DIRECTORIES |-> [d \in DirectoryNames |-> TRUE],
     IMPACT_WEIGHTS |-> [stat \in DOMAIN IMPACT_WEIGHTS |->
                            [type |-> "float", value |-> IMPACT_WEIGHTS[stat]]],
     TRADE_THRESHOLDS |-> TRADE_THRESHOLDS]

\* Values an edited weight may have: 2, True, "1.0", None.
EditedWeights ==
    {[type |-> "int", value |-> FromInt(2)], [type |-> "bool", value |-> FromInt(1)],
     [type |-> "str", value |-> [str |-> "1.0"]], [type |-> "NoneType", value |-> None]}

WeightConfigs ==
    {ShippedConfig.IMPACT_WEIGHTS}
    \cup {[ShippedConfig.IMPACT_WEIGHTS EXCEPT ![stat] = v] :
            stat \in {"PTS", "TOV"}, v \in EditedWeights}

ThresholdValues == {FromInt(0), Rat(30, 10), Rat(70, 10), FromInt(10)}

ThresholdConfigs ==
    {[fair |-> f, slightly_unbalanced |-> s] :
        f \in ThresholdValues, s \in ThresholdValues}
    \cup {[fair |-> Rat(30, 10)]}

\* Every directory in place, or one of them removed.
DirectoryStates ==
    {[d \in DirectoryNames |-> d # gone] : gone \in DirectoryNames \cup {"none"}}

Configs ==
    {[DIRECTORIES |-> ds, IMPACT_WEIGHTS |-> ws, TRADE_THRESHOLDS |-> ts] :
        ds \in DirectoryStates, ws \in WeightConfigs, ts \in ThresholdConfigs}

-----------------------------------------------------------------------------
(* The evaluator's methods called directly, as the unit tests do, on rows   *)
(* that need not carry every column and under a weight table that may be a  *)
(* multiple of the shipped one.                                             *)

ScaleWeights(w, k) == [stat \in DOMAIN w |-> RMul(k, w[stat])]

ScaleFactors == {Rat(k, 2) : k \in -MaxScale..MaxScale}

WeightTables == {ScaleWeights(IMPACT_WEIGHTS, k) : k \in ScaleFactors}

\* pd.Series rows: GP, any of the weighted stats, with or without a name.
DirectRows ==
    {Restrict(MkRow(1, p), {"GP"} \cup name \cup present) :
        p \in StatProfiles, present \in SUBSET WeightedStats,
        name \in {{}, {"PLAYER_NAME"}}}

Differences == {Rat(k, 4) : k \in 0..MaxDiff}

Impacts == {Rat(k, 8) : k \in -MaxImp..MaxImp} \cup {FromInt(15), FromInt(20)}

\* The direct calls about to be made.
PendingCalls ==
    {[op |-> "calculate_impact_score", done |-> FALSE, stats |-> stats] :
        stats \in DirectRows}
    \cup {[op |-> "validate_config", done |-> FALSE, config |-> config] :
              config \in Configs}
    \cup {[op |-> "import src.config", done |-> FALSE, config |-> config] :
              config \in Configs}
    \cup {[op |-> "_get_verdict", done |-> FALSE, difference |-> difference] :
              difference \in Differences}
    \cup {[op |-> "_estimate_win_impact", done |-> FALSE,
            impact1 |-> impact1, impact2 |-> impact2] :
              impact1 \in Impacts, impact2 \in Impacts}

InitPure ==
    /\ raw_file = SampleTable
    /\ weights \in WeightTables
    /\ evaluator = "ready"
    /\ player_stats = SampleTable
    /\ call \in PendingCalls
    /\ provider = NoProvider
    /\ cache = EmptyCache

\* evaluator.calculate_impact_score(stats)
CalculateImpactScore ==
    /\ evaluator = "ready"
    /\ call.op = "calculate_impact_score" /\ ~call.done
    /\ call' = [op |-> call.op, done |-> TRUE, stats |-> call.stats,
                result |-> calculate_impact_score(call.stats, weights)]
    /\ UNCHANGED <<raw_file, weights, evaluator, player_stats, provider, cache>>

\* evaluator._get_verdict(difference)
GetVerdict ==
    /\ evaluator = "ready"
    /\ call.op = "_get_verdict" /\ ~call.done
    /\ call' = [op |-> call.op, done |-> TRUE, difference |-> call.difference,
                result |-> _get_verdict(call.difference)]
    /\ UNCHANGED <<raw_file, weights, evaluator, player_stats, provider, cache>>

\* evaluator._estimate_win_impact(impact1, impact2)
EstimateWinImpact ==
    /\ evaluator = "ready"
    /\ call.op = "_estimate_win_impact" /\ ~call.done
    /\ call' = [op |-> call.op, done |-> TRUE,
                impact1 |-> call.impact1, impact2 |-> call.impact2,
                result |-> _estimate_win_impact(call.impact1, call.impact2)]
    /\ UNCHANGED <<raw_file, weights, evaluator, player_stats, provider, cache>>

\* validate_config()
ValidateConfig ==
    /\ call.op = "validate_config" /\ ~call.done
    /\ call' = [op |-> call.op, done |-> TRUE, config |-> call.config,
                result |-> validate_config(call.config)]
    /\ UNCHANGED <<raw_file, weights, evaluator, player_stats, provider, cache>>

\* import src.config, as every other module of the program does first
ImportConfig ==
    /\ call.op = "import src.config" /\ ~call.done
    /\ call' = [op |-> call.op, done |-> TRUE, config |-> call.config,
                result |-> import_config(call.config)]
    /\ UNCHANGED <<raw_file, weights, evaluator, player_stats, provider, cache>>

NextPure ==
    \/ CalculateImpactScore
    \/ GetVerdict
    \/ EstimateWinImpact
    \/ ValidateConfig
    \/ ImportConfig

SpecPure == InitPure /\ [][NextPure]_vars

-----------------------------------------------------------------------------
(* The collector as a state machine: what the provider answers is fixed at  *)
(* the start, the cache directory starts empty, and fetch_player_logs and   *)
(* collect_player_stats are called in any order.                            *)

LogColumns ==
    {"PTS", "AST", "REB", "STL", "BLK", "TOV", "FGM", "FGA", "FG_PCT",
     "FG3M", "FG3A", "FG3_PCT", "FTM", "FTA", "FT_PCT", "TEAM_ID"}

\* Game i of a log.  "flat" is the sample log of the tests; "varied" changes
\* from game to game, with games of no field-goal attempt, no three-point
\* attempt at all, and a change of team after game 5.
GameRow(i, pattern) ==
    IF pattern = "flat"
    THEN [PTS |-> 25, AST |-> 8, REB |-> 5, STL |-> 2, BLK |-> 1, TOV |-> 3,
          FGM |-> 10, FGA |-> 20, FG_PCT |-> Rat(500, 1000),
          FG3M |-> 3, FG3A |-> 8, FG3_PCT |-> Rat(375, 1000),
          FTM |-> 5, FTA |-> 6, FT_PCT |-> Rat(833, 1000),
          TEAM_ID |-> 1610612747]
    ELSE [PTS |-> 10 + i, AST |-> i % 3, REB |-> 5, STL |-> i % 2, BLK |-> 1,
          TOV |-> 2,
          FGM |-> i % 4, FGA |-> 2 * (i % 4) + (IF i % 4 = 0 THEN 0 ELSE i % 2),
          FG_PCT |-> IF i % 4 = 0 THEN Zero
                     ELSE Rat(i % 4, 2 * (i % 4) + (i % 2)),
          FG3M |-> 0, FG3A |-> 0, FG3_PCT |-> Zero,
          FTM |-> i % 2, FTA |-> 1 + (i % 2), FT_PCT |-> Rat(i % 2, 1 + (i % 2)),
          TEAM_ID |-> IF i <= 5 THEN 1610612747 ELSE 1610612756]

GameLog(n, pattern, columns) ==
    [columns |-> columns,
     rows |-> [i \in 1..n |-> Restrict(GameRow(i, pattern), columns)]]

\* What the provider may answer for one player.
Responses ==
    {ApiError}
    \cup {GameLog(n, "flat", LogColumns) :
            n \in {0, PROCESSING_CONFIG.min_games_played - 1,
                   PROCESSING_CONFIG.min_games_played, MaxGames}}
    \cup {GameLog(MaxGames, "varied", columns) :
            columns \in {LogColumns,
                         LogColumns \ Percentages,
                         LogColumns \ (Percentages \cup {"FGA"}),
                         LogColumns \ {"BLK"},
                         LogColumns \ {"TEAM_ID"}}}
    \cup {GameLog(PROCESSING_CONFIG.min_games_played - 1, "varied",
                  LogColumns \ {"BLK"})}

\* An entry of players.get_active_players(): a player listed without a
\* teamId and one listed with it.
PlayerDict(id) ==
    IF id = 1 THEN [id |-> id, full_name |-> PlayerName(id)]
    ELSE [id |-> id, full_name |-> PlayerName(id), teamId |-> 1610612740 + id]

PlayerDicts == {PlayerDict(id) : id \in PlayerIds}

Providers ==
    {[active |-> active, logs |-> logs] :
        active \in SeqsUpTo(PlayerDicts, MaxPlayers),
        logs \in [PlayerIds -> Responses]}

InitCollect ==
    /\ raw_file = NoFile
    /\ weights = IMPACT_WEIGHTS
    /\ evaluator = "none"
    /\ player_stats = NoTable
    /\ call = NoCall
    /\ provider \in Providers
    /\ cache = EmptyCache

\* collector.fetch_player_logs(player_id)
FetchPlayerLogs ==
    \E player_id \in PlayerIds :
        \E fetched \in {fetch_player_logs(player_id, cache, provider)} :
            /\ call' = [op |-> "fetch_player_logs", player_id |-> player_id,
                        result |-> fetched.logs, contacted |-> fetched.contacted]
            /\ cache' = fetched.cache
            /\ UNCHANGED <<raw_file, weights, evaluator, player_stats, provider>>

\* collector.collect_player_stats()
CollectPlayerStats ==
    \E collected \in {collect_player_stats(cache, raw_file, provider)} :
        /\ call' = [op |-> "collect_player_stats", df |-> collected.df,
                    events |-> collected.events]
        /\ raw_file' = collected.raw_file
        /\ cache' = collected.cache
        /\ UNCHANGED <<weights, evaluator, player_stats, provider>>

NextCollect == FetchPlayerLogs \/ CollectPlayerStats

SpecCollect == InitCollect /\ [][NextCollect]_vars

-----------------------------------------------------------------------------
(* get_player_stats as a state machine: a stored table of any kind, a cache *)
(* directory that starts empty, a provider whose answers are fixed at the   *)
(* start; the collector is asked for the stats, with or without a refresh,  *)
(* the stored table is validated, and an evaluator is built from it.        *)

\* An active player whose name marks it as test data.
TestPlayerDict(id) ==
    [id |-> id, full_name |-> "test_player_2", teamId |-> 1610612740 + id]

\* One player under an ordinary name and one under a test-data name.
StatsPlayerDicts == {PlayerDict(1), TestPlayerDict(2)}

\* Answers that give a row, exclude the player for too few games, and drop
\* the player for a missing essential field.
StatsResponses ==
    {GameLog(MaxGames, "flat", LogColumns),
     GameLog(PROCESSING_CONFIG.min_games_played - 1, "flat", LogColumns),
     GameLog(MaxGames, "varied", LogColumns \ {"BLK"})}

StatsProviders ==
    {[active |-> active, logs |-> logs] :
        active \in SeqsUpTo(StatsPlayerDicts, MaxPlayers),
        logs \in [PlayerIds -> StatsResponses]}

\* A stored table of n players under ordinary names, as a season's
\* collection writes it.
LeagueTable(n) ==
    [columns |-> essential_stats,
     rows |-> [i \in 1..n |->
                 [MkRow(1, CHOOSE p \in StatProfiles : p.GP = 10 /\ p.PTS = Q(2000))
                     EXCEPT !["PLAYER_ID"] = i]]]

\* The sample table under test-data names.
TestTable ==
    [columns |-> essential_stats,
     rows |-> [i \in 1..Len(SampleTable.rows) |->
                 [SampleTable.rows[i] EXCEPT
                     !["PLAYER_NAME"] = IF i = 1 THEN "test_player_1"
                                        ELSE "test_player_2"]]]

\* What data/raw/player_stats_raw.csv may hold before the collector is asked:
\* nothing, tables that pass validation (test data, 50 players), and tables
\* that do not (49 players, two players, no row, a column missing).
StoredTables ==
    {NoFile, TestTable, LeagueTable(50), LeagueTable(49), SampleTable,
     [columns |-> essential_stats, rows |-> <<>>],
     Project(TestTable, essential_stats \ {"TEAM_ID"}),
     Project(TestTable, essential_stats \ {"PLAYER_NAME"}),
     Project(LeagueTable(50), essential_stats \ {"FG_PCT"})}

InitStats ==
    /\ raw_file \in StoredTables
    /\ weights = IMPACT_WEIGHTS
    /\ evaluator = "none"
    /\ player_stats = NoTable
    /\ call = NoCall
    /\ provider \in StatsProviders
    /\ cache = EmptyCache

\* collector.get_player_stats(force_refresh); `found` is the stored table as
\* the call found it.
GetPlayerStats ==
    \E force_refresh \in BOOLEAN :
        \E got \in {collector_get_player_stats(force_refresh, cache, raw_file, provider)} :
            /\ call' = [op |-> "get_player_stats", force_refresh |-> force_refresh,
                        found |-> raw_file, result |-> got.result,
                        collected |-> got.collected, events |-> got.events]
            /\ raw_file' = got.raw_file
            /\ cache' = got.cache
            /\ UNCHANGED <<weights, evaluator, player_stats, provider>>

\* collector.validate_data(pd.read_csv(raw_file))
ValidateData ==
    /\ raw_file # NoFile
    /\ call' = [op |-> "validate_data", df |-> raw_file,
                result |-> validate_data(raw_file)]
    /\ UNCHANGED <<raw_file, weights, evaluator, player_stats, provider, cache>>

NextStats == GetPlayerStats \/ ValidateData \/ Construct

SpecStats == InitStats /\ [][NextStats]_vars

-----------------------------------------------------------------------------
(* Properties of the evaluator (checked under Spec).                        *)

Evaluated == call.op = "evaluate_trade" /\ ~call.result.raised
Succeeded == Evaluated /\ "trade_analysis" \in DOMAIN call.result.value
Evaluation == call.result.value.trade_analysis.evaluation

\* Whether some row of the loaded table carries the identifier.
InTable(id) == \E i \in 1..Len(player_stats.rows) : player_stats.rows[i]["PLAYER_ID"] = id

\* The unrounded impact score of the asked player `id` of the last call.
ImpactOf(id) == calculate_impact_score(get_player_stats(player_stats, id), weights).value
Gap == RAbs(RSub(ImpactOf(call.player1_id), ImpactOf(call.player2_id)))

\* C2: the fairness score of every successful evaluation lies in [0, 10], is
\* exactly 10 when the two impact scores are equal and is 0 when their
\* absolute difference is at least 10.
C2_FairnessScoreRange ==
    Succeeded =>
        /\ RLe(Zero, Evaluation.fairness_score)
        /\ RLe(Evaluation.fairness_score, FromInt(10))
        /\ (ImpactOf(call.player1_id) = ImpactOf(call.player2_id)
                => Evaluation.fairness_score = FromInt(10))
        /\ (RLe(FromInt(10), Gap) => Evaluation.fairness_score = Zero)

\* An evaluation of two players whose impacts are at least 10 apart.
C2_Witness ==
    /\ Succeeded
    /\ RLt(FromInt(10), Gap)
    /\ Evaluation.fairness_score = Zero

\* C3: evaluating (A, B) and (B, A) gives the same verdict and the same
\* fairness score, and opposite win impacts.
C3_SwapSymmetry ==
    Succeeded =>
        LET swapped == evaluate_trade(player_stats, weights,
                                      call.player2_id, call.player1_id)
            other   == swapped.value.trade_analysis.evaluation
        IN  /\ ~swapped.raised
            /\ other.verdict = Evaluation.verdict
            /\ other.fairness_score = Evaluation.fairness_score
            /\ other.win_impact = RNeg(Evaluation.win_impact)

\* An evaluation of two different players of impacts 3.55 and 6.55: win
\* impact -0.3 one way round (0.3 the other), "Slightly Unbalanced" both ways.
C3_Witness ==
    /\ Succeeded
    /\ call.player1_id # call.player2_id
    /\ ImpactOf(call.player1_id) = Q(355)
    /\ ImpactOf(call.player2_id) = Q(655)
    /\ Evaluation.win_impact = Rat(-3, 10)
    /\ Evaluation.verdict = "Slightly Unbalanced"

\* C4: an evaluation naming an identifier absent from the loaded table returns
\* {"error": "One or both players not found"} and raises nothing, one naming
\* two present identifiers returns an analysis, and no evaluation changes the
\* evaluator or its table.
C4_MissingPlayerIsAnErrorResult ==
    [][call'.op = "evaluate_trade" =>
          /\ player_stats' = player_stats
          /\ evaluator' = evaluator
          /\ ~call'.result.raised
          /\ IF InTable(call'.player1_id) /\ InTable(call'.player2_id)
             THEN "trade_analysis" \in DOMAIN call'.result.value
             ELSE call'.result.value = [error |-> "One or both players not found"]
      ]_vars

\* An evaluation with one identifier present and the other absent.
C4_Witness ==
    /\ Evaluated
    /\ InTable(call.player1_id) /\ ~InTable(call.player2_id)
    /\ call.result.value = [error |-> "One or both players not found"]

InputContract ==
    {"PLAYER_ID", "PLAYER_NAME", "GP", "TEAM_ID", "PTS", "REB", "AST", "STL",
     "BLK", "TOV", "FG_PCT", "FG3_PCT", "FT_PCT"}

UsedColumns ==
    {"PLAYER_ID", "PLAYER_NAME", "GP", "PTS", "REB", "AST", "STL", "BLK", "TOV"}

Constructed == call.op = "__init__" /\ raw_file # NoFile

\* C5 as stated: a stored table lacking any column of the input contract
\* (team identifier and shooting percentages included) fails construction
\* with the set of missing columns.
C5_AsClaimed ==
    Constructed /\ InputContract \ raw_file.columns # {} =>
        /\ ~call.ok
        /\ call.missing = InputContract \ raw_file.columns
        /\ evaluator = "failed"

\* C5, amended: construction fails, with a ValueError naming exactly the
\* missing ones, when the stored table lacks any of PLAYER_ID, PLAYER_NAME, GP
\* and the six weighted stats, and no evaluator is produced; a table lacking
\* only TEAM_ID or a shooting percentage loads.
C5_MissingUsedColumnsFailConstruction ==
    Constructed =>
        IF UsedColumns \ raw_file.columns # {}
        THEN /\ ~call.ok
             /\ call.error = "ValueError"
             /\ call.missing = UsedColumns \ raw_file.columns
             /\ evaluator = "failed"
             /\ player_stats = NoTable
        ELSE /\ call.ok
             /\ evaluator = "ready"
             /\ player_stats = raw_file

\* A construction that failed on a table without GP.
C5_Witness ==
    /\ Constructed
    /\ "GP" \notin raw_file.columns
    /\ evaluator = "failed"
    /\ call.missing = {"GP"}

\* The impact_score entry of the asked player `id` in the last result.
ShownImpact(id) ==
    call.result.value.trade_analysis.players[IdStr(id)].impact_score

\* |x - y| <= 1/200: x is y rounded to two decimals, or as near.
WithinHalfHundredth(x, y) == RLe(RAbs(RSub(x, y)), Rat(1, 200))

\* C13: in every successful evaluation the verdict is the band of the exact
\* gap between the two unrounded impact scores (below 3, from 3 to below 7,
\* 7 and above), the fairness score is max(0, 10 - exact gap) rounded to two
\* decimals and the win impact is (impact1 - impact2) / 10 rounded to two
\* decimals, whatever the two-decimal impact_score entries of the result are.
C13_RoundingIsPresentationOnly ==
    Succeeded =>
        LET impact1 == ImpactOf(call.player1_id)
            impact2 == ImpactOf(call.player2_id)
        IN  /\ (Evaluation.verdict = "Fair Trade") <=> RLt(Gap, FromInt(3))
            /\ (Evaluation.verdict = "Slightly Unbalanced")
                  <=> (RLe(FromInt(3), Gap) /\ RLt(Gap, FromInt(7)))
            /\ (Evaluation.verdict = "Significantly Unbalanced")
                  <=> RLe(FromInt(7), Gap)
            /\ WithinHalfHundredth(Evaluation.fairness_score,
                                   RMax(Zero, RSub(FromInt(10), Gap)))
            /\ WithinHalfHundredth(Evaluation.win_impact,
                                   RDiv(RSub(impact1, impact2), FromInt(10)))
            /\ ShownImpact(call.player1_id) = RoundTo(impact1, 2)
            /\ ShownImpact(call.player2_id) = RoundTo(impact2, 2)

\* The evaluation of impacts 2.996 and 0.004: shown as 3.0 and 0.0, which are
\* 3.0 apart ("Slightly Unbalanced", fairness 7.0), while the verdict is
\* "Fair Trade" and the fairness score 7.01, those of the exact gap 2.992.
C13_Witness ==
    /\ Succeeded
    /\ ImpactOf(call.player1_id) = Rat(2996, 1000)
    /\ ImpactOf(call.player2_id) = Rat(4, 1000)
    /\ ShownImpact(call.player1_id) = FromInt(3)
    /\ ShownImpact(call.player2_id) = Zero
    /\ _get_verdict(RSub(ShownImpact(call.player1_id), ShownImpact(call.player2_id)))
          = "Slightly Unbalanced"
    /\ Evaluation.verdict = "Fair Trade"
    /\ Evaluation.fairness_score = Rat(701, 100)
    /\ Evaluation.win_impact = Rat(3, 10)

\* The entries under trade_analysis.players of the last result.
Players == call.result.value.trade_analysis.players

\* name, impact_score and a stats_summary of PPG, RPG, APG and integer GP.
WellFormedEntry(entry) ==
    /\ DOMAIN entry = {"name", "impact_score", "stats_summary"}
    /\ DOMAIN entry.stats_summary = {"PPG", "RPG", "APG", "GP"}
    /\ entry.stats_summary.GP \in Nat

\* C19 as stated: every successful evaluation has exactly two player entries,
\* one keyed by each requested identifier and each of the documented shape,
\* also when player1_id = player2_id.
C19_AsClaimed ==
    Succeeded =>
        /\ Cardinality(DOMAIN Players) = 2
        /\ {IdStr(call.player1_id), IdStr(call.player2_id)} \subseteq DOMAIN Players
        /\ \A key \in DOMAIN Players : WellFormedEntry(Players[key])

-----------------------------------------------------------------------------
(* Properties of the methods called directly (checked under SpecPure).      *)

Called(op) == call.op = op /\ call.done

StatOrZero(stats, c) == IF c \in DOMAIN stats THEN stats[c] ELSE Zero

\* C6: for a row with GP >= 10, calculate_impact_score returns
\* (PTS*w[PTS] + REB*w[REB] + AST*w[AST] + STL*w[STL] + BLK*w[BLK] +
\* TOV*w[TOV]) / GP, a stat the row lacks counting as 0 (no exception); under
\* the shipped weights that is (PTS + 1.2 REB + 1.5 AST + 2 STL + 2 BLK - TOV)/GP.
C6_ImpactFormula ==
    Called("calculate_impact_score") /\ call.stats["GP"] >= 10 =>
        LET st == call.stats
            T(c) == RMul(StatOrZero(st, c), weights[c])
            \* the stat in hundredths (the rows' stats are whole hundredths)
            H(c) == (StatOrZero(st, c).n * 100) \div StatOrZero(st, c).d
            total == RAdd(T("PTS"), RAdd(T("REB"), RAdd(T("AST"),
                     RAdd(T("STL"), RAdd(T("BLK"), T("TOV"))))))
        IN  /\ ~call.result.raised
            /\ call.result.value = RDiv(total, FromInt(st["GP"]))
            /\ weights = IMPACT_WEIGHTS =>
                 call.result.value =
                    Rat(  10 * H("PTS") + 12 * H("REB") + 15 * H("AST")
                        + 20 * H("STL") + 20 * H("BLK") - 10 * H("TOV"),
                        1000 * st["GP"])

\* The example row: PTS 20, AST 5, REB 5, STL 1, BLK 1, TOV 2, GP 10 gives 3.55.
C6_Witness ==
    /\ Called("calculate_impact_score")
    /\ weights = IMPACT_WEIGHTS
    /\ WeightedStats \subseteq DOMAIN call.stats
    /\ call.stats["GP"] = 10
    /\ call.stats["PTS"] = FromInt(20) /\ call.stats["AST"] = FromInt(5)
    /\ call.stats["REB"] = FromInt(5) /\ call.stats["STL"] = FromInt(1)
    /\ call.stats["BLK"] = FromInt(1) /\ call.stats["TOV"] = FromInt(2)
    /\ call.result = Returned(Q(355))

C8_LinearInWeights ==
    Called("calculate_impact_score") /\ ~call.result.raised =>
        \A k \in ScaleFactors :
            calculate_impact_score(call.stats, ScaleWeights(weights, k))
                = Returned(RMul(k, call.result.value))

\* A row of non-zero score, whose score under the weights times -3/2 is -3/2
\* of it.
C8_Witness ==
    /\ Called("calculate_impact_score")
    /\ ~call.result.raised
    /\ call.result.value # Zero
    /\ calculate_impact_score(call.stats, ScaleWeights(weights, Rat(-3, 2)))
           = Returned(RMul(Rat(-3, 2), call.result.value))

\* C9: _estimate_win_impact(impact1, impact2) is (impact1 - impact2)/10
\* rounded to a nearest hundredth (within half a hundredth of the quotient),
\* never negative when impact1 >= impact2 and never positive when
\* impact2 >= impact1.
C9_WinImpact ==
    Called("_estimate_win_impact") =>
        LET x == RDiv(RSub(call.impact1, call.impact2), FromInt(10))
            r == call.result
            h == r.n * (100 \div r.d)          \* r in hundredths
            e == Abs(100 * x.n - h * x.d)      \* |100 x - h| * x.d
        IN  /\ 100 % r.d = 0
            /\ 2 * e <= x.d
            /\ (RLe(call.impact2, call.impact1) => r.n >= 0)
            /\ (RLe(call.impact1, call.impact2) => r.n <= 0)

\* The example: impacts 20.0 and 15.0 give 0.5.
C9_Witness ==
    /\ Called("_estimate_win_impact")
    /\ call.impact1 = FromInt(20) /\ call.impact2 = FromInt(15)
    /\ call.result = Rat(5, 10)

-----------------------------------------------------------------------------
(* Properties of the collector (checked under SpecCollect).                 *)

\* The game log collect_player_stats works from for player `id`: the cached
\* file when there is one, else the provider's answer (no log when it fails).
LoggedGames(id) ==
    IF cache[id] # NoFile THEN cache[id]
    ELSE IF provider.logs[id] = ApiError THEN [columns |-> {}, rows |-> <<>>]
    ELSE provider.logs[id]

\* Every essential field of the player can be had from the log's columns.
FieldsAvailable(id) ==
    LET columns == LoggedGames(id).columns
    IN  /\ {"PTS", "AST", "REB", "STL", "BLK", "TOV"} \subseteq columns
        /\ "FG_PCT" \in columns \/ {"FGM", "FGA"} \subseteq columns
        /\ "FG3_PCT" \in columns \/ {"FG3M", "FG3A"} \subseteq columns
        /\ "FT_PCT" \in columns \/ {"FTM", "FTA"} \subseteq columns

Qualifies(id) == Len(LoggedGames(id).rows) >= 10 /\ FieldsAvailable(id)

C11_AsClaimed ==
    call.op = "collect_player_stats" =>
        \A k \in 1..Len(call.df.rows) :
            LET row      == call.df.rows[k]
                response == provider.logs[row["PLAYER_ID"]]
                games    == Len(response.rows)
            IN  \A pct \in Percentages \ response.columns :
                    LET made     == IntSum(response.rows, MadeColumn(pct), games)
                        attempts == IntSum(response.rows, AttemptsColumn(pct), games)
                    IN  row[pct] = IF attempts > 0 THEN Rat(made, attempts)
                                   ELSE Zero

-----------------------------------------------------------------------------
(* Properties of the configuration (checked under SpecPure).                *)

\* The fair threshold is not strictly below the slightly-unbalanced one.
ThresholdsOutOfOrder(config) ==
    /\ {"fair", "slightly_unbalanced"} \subseteq DOMAIN config.TRADE_THRESHOLDS
    /\ LET fair     == config.TRADE_THRESHOLDS["fair"]
           slightly == config.TRADE_THRESHOLDS["slightly_unbalanced"]
       IN  fair.n * slightly.d >= slightly.n * fair.d

\* Some weight is a string or None.
SomeWeightNotNumeric(config) ==
    \E stat \in DOMAIN config.IMPACT_WEIGHTS :
        config.IMPACT_WEIGHTS[stat].type \in {"str", "NoneType"}

\* The shipped weights and thresholds, whatever the directories.
ShippedDefaults(config) ==
    /\ config.IMPACT_WEIGHTS = ShippedConfig.IMPACT_WEIGHTS
    /\ config.TRADE_THRESHOLDS = ShippedConfig.TRADE_THRESHOLDS

\* C12: validate_config returns False, and importing the configuration raises
\* ValueError (so nothing that imports it is initialised), whenever the fair
\* threshold is not strictly less than the slightly-unbalanced threshold or a
\* weight is not a number; with the shipped weights and thresholds the import
\* succeeds, and validate_config returns True when the data directories are in
\* place.
C12_ConfigValidatedAtStartup ==
    /\ Called("validate_config") =>
          /\ (ThresholdsOutOfOrder(call.config) \/ SomeWeightNotNumeric(call.config))
                => call.result = FALSE
          /\ call.config = ShippedConfig => call.result = TRUE
    /\ Called("import src.config") =>
          /\ (ThresholdsOutOfOrder(call.config) \/ SomeWeightNotNumeric(call.config))
                => call.result = Raised("ValueError")
          /\ ShippedDefaults(call.config) => ~call.result.raised

\* An import under numeric weights and two equal thresholds, which aborts.
C12_Witness ==
    /\ Called("import src.config")
    /\ ~SomeWeightNotNumeric(call.config)
    /\ DOMAIN call.config.TRADE_THRESHOLDS = {"fair", "slightly_unbalanced"}
    /\ call.config.TRADE_THRESHOLDS["fair"]
          = call.config.TRADE_THRESHOLDS["slightly_unbalanced"]
    /\ call.result = Raised("ValueError")

\* C14: fetch_player_logs(p) contacts the provider exactly when the cache holds
\* no file for p; when the file exists it returns the file's logs and changes
\* nothing; logs it returns after contacting the provider are non-empty and
\* are then the content of p's cache file; collect_player_stats likewise asks
\* the provider only for players without a cache file; and no call removes a
\* cache file.  So once a call has returned logs obtained from the provider
\* for p, no later call contacts the provider for p.
C14_ProviderAskedOnlyWithoutCacheFile ==
    [][/\ call'.op = "fetch_player_logs" =>
             LET p == call'.player_id
             IN  /\ call'.contacted <=> (cache[p] = NoFile)
                 /\ cache[p] # NoFile =>
                       call'.result = cache[p] /\ cache' = cache
                 /\ (call'.contacted /\ call'.result # None) =>
                       /\ Len(call'.result.rows) > 0
                       /\ cache'[p] = call'.result
       /\ call'.op = "collect_player_stats" =>
             \A k \in 1..Len(call'.events) :
                 call'.events[k].io = "request" =>
                     cache[call'.events[k].id] = NoFile
       /\ \A p \in PlayerIds : cache[p] # NoFile => cache'[p] = cache[p]
      ]_vars

\* A fetch answered from the cache file an earlier call wrote (the cache
\* starts empty), without contacting the provider.
C14_Witness ==
    /\ call.op = "fetch_player_logs"
    /\ ~call.contacted
    /\ call.result # None
    /\ call.result = cache[call.player_id]
    /\ provider.logs[call.player_id] # ApiError
    /\ Len(provider.logs[call.player_id].rows) = Len(call.result.rows)

\* C17 as stated: in the requests and sleeps of a collect_player_stats call,
\* in the order made, a sleep of the configured delay lies between any two
\* consecutive requests to the provider, also when the earlier request's
\* player is then excluded for too few games.
C17_AsClaimed ==
    call.op = "collect_player_stats" =>
        \A k \in 1..(Len(call.events) - 1) :
            call.events[k].io = "request" =>
                call.events[k + 1].io = "sleep"

-----------------------------------------------------------------------------
(* Properties of get_player_stats and validate_data (checked under          *)
(* SpecStats).                                                              *)

\* C15: get_player_stats(force_refresh=True) always runs collect_player_stats,
\* whatever is stored; get_player_stats(force_refresh=False) on a stored table
\* that passes validation returns that table, makes no request and changes
\* neither the stored table nor the cache; and without force_refresh a
\* collection runs only when no table is stored or the stored one fails
\* validation.
C15_ForceRefreshAlwaysCollects ==
    [][call'.op = "get_player_stats" =>
          LET valid == raw_file # NoFile /\ validate_data(raw_file)
              fresh == collect_player_stats(cache, raw_file, provider)
          IN  /\ call'.force_refresh =>
                    /\ call'.collected
                    /\ call'.events = fresh.events
                    /\ cache' = fresh.cache
                    /\ call'.result \in {fresh.df, None}
              /\ (~call'.force_refresh /\ valid) =>
                    /\ ~call'.collected
                    /\ call'.events = <<>>
                    /\ call'.result = raw_file
                    /\ raw_file' = raw_file
                    /\ cache' = cache
              /\ (~call'.force_refresh /\ call'.collected) => ~valid
              /\ (~call'.force_refresh /\ ~valid) => call'.collected
      ]_vars

\* A forced refresh that found a valid stored table and still asked the
\* provider and returned the freshly collected table.
C15_Witness ==
    /\ call.op = "get_player_stats"
    /\ call.force_refresh
    /\ call.found # NoFile
    /\ validate_data(call.found)
    /\ call.collected
    /\ \E k \in 1..Len(call.events) : call.events[k].io = "request"
    /\ call.result # None
    /\ call.result # call.found

\* The table has no row or lacks an essential column.
EmptyOrIncomplete(df) ==
    \/ Len(df.rows) = 0
    \/ \E column \in essential_stats : column \notin df.columns

\* C16: validate_data returns False for a table with no row and for a table
\* lacking an essential column, and what get_player_stats returns, from the
\* stored table or from a fresh collection, is None or a table with at least
\* one row and every essential column that validate_data accepts.
C16_OnlyValidatedTablesReturned ==
    /\ call.op = "validate_data" =>
          (EmptyOrIncomplete(call.df) => call.result = FALSE)
    /\ call.op = "get_player_stats" =>
          \/ call.result = None
          \/ /\ ~EmptyOrIncomplete(call.result)
             /\ validate_data(call.result)

\* A call without force_refresh that found a stored table of test data
\* lacking TEAM_ID, collected afresh and returned the collected table.
C16_Witness ==
    /\ call.op = "get_player_stats"
    /\ ~call.force_refresh
    /\ call.found # NoFile
    /\ Len(call.found.rows) > 0
    /\ "TEAM_ID" \notin call.found.columns
    /\ call.collected
    /\ call.result # None
    /\ ~EmptyOrIncomplete(call.result)

\* C18 as stated: after a get_player_stats call that collected afresh and
\* returned None, the stored table is the one the call found.
C18_AsClaimed ==
    (call.op = "get_player_stats" /\ call.collected /\ call.result = None) =>
        raw_file = call.found

====
